---- MODULE Spec2Model ----
(***************************************************************************)
(* Model of the puzzle application of mwasobaddy/Puzzle:                   *)
(*   - the PuzzleGame component (single-player game loop: loading a        *)
(*     puzzle, dragging and dropping pieces, timer, pause, reset, replay,  *)
(*     completion handling), CustomCulturalPuzzle.jsx lines 324-1396;      *)
(*   - the useMultiplayerGame hook (the shared session record in the       *)
(*     realtime database and the clients writing to it),                   *)
(*     CustomCulturalPuzzle.jsx lines 1409-1720.                           *)
(* The component and the hook do not call each other: SpecGame is the      *)
(* component; SpecSession, SpecProgress and SpecPieces are the hook's      *)
(* clients acting on the session's status, progress and pieces.            *)
(***************************************************************************)
EXTENDS Integers, Sequences, FiniteSets, Bags, TLC

NULL == "null"

(***************************************************************************)
(* Bounds of the model.                                                    *)
(***************************************************************************)
\* timeElapsed is capped: the interval callback is disabled at MaxTime.
MaxTime == 1
\* createPuzzlePieces calls whose texture load has not yet resolved.
MaxPendingLoads == 2
\* synchronousCompletion calls suspended in their await of addDoc.
MaxPendingCompletions == 1
\* the call counters of the completion handlers saturate at MaxCalls.
MaxCalls == 2
\* pieces per row of the smaller grid (the larger grid has one more).
GridX == 1
\* pieces that a reset's random offsets leave within the snap thresholds.
MaxResetNear == 1
\* puzzle ids have at most MaxIdLen characters.
MaxIdLen == 2
\* the path of an invite link that is not generated has at most MaxPathLen
\* characters after its first '/'.
MaxPathLen == 3
\* documents of completed_puzzles that are followed.
MaxDocs == 3
\* the clock runs from 0 to MaxNow.
MaxNow == 2

(***************************************************************************)
(* PuzzleGame: values.                                                     *)
(***************************************************************************)
\* `difficulties` of DifficultyBar: the selectable difficulty records
\* {id, grid}; the first one is the initial selectedDifficulty.
DifficultyIds == {"easy", "expert"}

\* gridSize.x * gridSize.y of a difficulty record (one row of pieces).
GridCount(d) ==
  IF d = "easy" THEN GridX ELSE IF d = "expert" THEN GridX + 1 ELSE GridX + 2

\* DIFFICULTY_SETTINGS (23-28): snapDistance in hundredths of a scene unit.
\* No handler of the component reads this table.
DIFFICULTY_SETTINGS(d) ==
  IF d = "easy" THEN [snapDistance |-> 40, rotationEnabled |-> FALSE]
  ELSE IF d = "medium" THEN [snapDistance |-> 30, rotationEnabled |-> TRUE]
  ELSE IF d = "hard" THEN [snapDistance |-> 20, rotationEnabled |-> TRUE]
  ELSE [snapDistance |-> 15, rotationEnabled |-> TRUE]

\* PRESET_IMAGES (src of the images offered by ImageSelectionModal).
Images == {"elephant"}

\* Poses <<distance, rotation>> of a piece that drags and resets produce
\* here: its distance from its target in hundredths of a scene unit, its
\* rotation about z in milliradians. ScatteredPose is away from the target;
\* NearPose is within both thresholds of handleMouseUp.
ScatteredPose == <<100, 0>>
NearPose == <<29, 0>>
DragPoses == {NearPose, ScatteredPose}

\* Thresholds of handleMouseUp: distance < 0.3, rotationDiff < 0.2,
\* Math.PI * 2 (6.283 rad).
SnapDistance == 30
RotationTolerance == 200
TwoPi == 6283

\* progress is the float (newCount / totalPieces) * 100; it is kept exactly
\* as the fraction num/den of 100 (0 is 0/1).
RECURSIVE Gcd(_, _)
Gcd(a, b) == IF b = 0 THEN a ELSE Gcd(b, a % b)
ProgressZero == [num |-> 0, den |-> 1]
\* The progress a handler would set if it rounded to a whole percentage.
ProgressRounded(newCount, total) ==
  [num |-> (2 * 100 * newCount + total) \div (2 * total), den |-> 100]
ProgressOf(newCount, total) ==
  LET g == Gcd(newCount, total)
  IN  IF newCount = 0 THEN ProgressZero
      ELSE [num |-> newCount \div g, den |-> total \div g]
\* progress === 100
IsHundred(p) == p.den > 0 /\ p.num = p.den

Min(a, b) == IF a < b THEN a ELSE b
Max(a, b) == IF a > b THEN a ELSE b
Abs(x) == IF x < 0 THEN -x ELSE x
\* JavaScript's %: the remainder has the sign of the dividend.
JsRem(a, b) == IF a >= 0 THEN a % b ELSE -((-a) % b)

\* Vector3.distanceTo (798, 831): the distance in three dimensions between
\* the target, which lies in the plane z = 0 (582-586), and a piece at planar
\* distance planar from it and at height z; in whole hundredths, rounded
\* down (which keeps every comparison `< n` with a whole n).
RECURSIVE RootFrom(_, _)
RootFrom(n, r) == IF (r + 1) * (r + 1) > n THEN r ELSE RootFrom(n, r + 1)
DistanceTo(planar, z) == RootFrom(planar * planar + z * z, 0)

\* What a drag can make of the held piece. Its planar distance from the
\* target follows the pointer (791); its height is the one it had at
\* mousedown, 0.01 after createPuzzlePieces (626), or 0.1 once a mousedown
\* was not followed by a move (775); its rotation is turned with the shift
\* key from the one it had (794-795), drag after drag.
PlayOffsets == {29, 35}
PlayHeights == {1, 10}
PlayRotations == {0, 1000, 6266, -6266, 12583}

\* completedAt values, in days from the start of the current month
\* (new Date(now.getFullYear(), now.getMonth(), 1), line 1120): a document
\* of the month before, one stamped exactly at the start, a later one.
StartOfMonth == 0
CompletedAts == {StartOfMonth - 1, StartOfMonth, StartOfMonth + 1}
\* serverTimestamp() of a document added now.
NewCompletedAt == {StartOfMonth, StartOfMonth + 1}

\* The text of the progress label: Math.round(progress) (1304).
MathRound(p) == (2 * 100 * p.num + p.den) \div (2 * p.den)

VARIABLES
  \* --- PuzzleGame: React state (useState) ---
  image, loading, progress, completedPieces, totalPieces, timeElapsed,
  isTimerRunning, gameState, showShareModal, difficulty, gameId,
  selectedDifficulty,
  \* --- PuzzleGame: refs ---
  puzzlePiecesRef,   \* the pieces of the scene: a bag of [isPlaced, dist, rot]
  selectedPieceRef,  \* the piece being dragged (one of the bag), or NULL
  timerAlive,        \* the interval of timerRef.current is scheduled
  isDragging,        \* the mouse effect's local isDragging
  \* --- PuzzleGame: asynchronous work in flight ---
  pendingLoads,        \* createPuzzlePieces calls awaiting their texture
  pendingCompletions,  \* synchronousCompletion calls awaiting addDoc
  \* --- PuzzleGame: environment and observations ---
  authUser,          \* auth.currentUser is set
  hpcCalls,          \* handlePuzzleCompletion calls in this attempt
  syncCalls,         \* synchronousCompletion calls in this attempt
  errorLog,          \* console.error('Error saving completion') in this attempt
  stateUpdates,      \* states written to the store by updateGameState
  \* --- PuzzleGame: the user's subscription and completed_puzzles ---
  isPremium,         \* subscription.planId === "pro" and active (326)
  isModalOpen,       \* the UpgradeModal is shown (328)
  completedPuzzles,  \* the user's documents: a bag of completedAt values
  \* --- invite links ---
  invite,            \* the last call of an invite-link function
  \* --- history ---
  misplacedDrops,    \* whether a drop of the attempt in play did not snap
  \* --- useMultiplayerGame: the store and the clients of one session ---
  db,               \* the record at games/{gameId} of the realtime database
  conn,             \* per client: "out" (not mounted), "in", "lost"
  isHost,           \* per client: the isHost argument of its hook
  hookProgress,     \* per client: the hook's progress state
  progressHistory,  \* the values games/{gameId}/progress has held
  progressOp,       \* per client: updateProgress between its get and update
  pieceOp,          \* per client: updatePiecePosition between its two updates
  maxReported,      \* the largest report returned since the session record began
  now,              \* Date.now(), the same clock for every client
  onDisconnectOp,   \* per client: lastActive of the update it registered
  hookError,        \* per client: the hook's error state
  hookLoading,      \* per client: the hook's loading state
  opResult          \* per client: how its last failed call ended

gvars == <<image, loading, progress, completedPieces, totalPieces, timeElapsed,
           isTimerRunning, gameState, showShareModal, difficulty, gameId,
           selectedDifficulty, puzzlePiecesRef, selectedPieceRef, timerAlive,
           isDragging, pendingLoads, pendingCompletions, authUser,
           hpcCalls, syncCalls, errorLog, stateUpdates, isPremium,
           isModalOpen, completedPuzzles, invite, misplacedDrops>>

hvars == <<db, conn, isHost, hookProgress, progressHistory, progressOp, pieceOp,
           maxReported, now, onDisconnectOp, hookError, hookLoading,
           opResult>>

vars == <<gvars, hvars>>

(***************************************************************************)
(* Invite links: strings are sequences of characters; the origin and the   *)
(* word join are single elements, no function looks inside them.           *)
(***************************************************************************)
\* window.location.origin
Origin == "https://puzzle.app"
JoinWord == "join"

\* The strings over chars of at most n characters.
RECURSIVE Strings(_, _)
Strings(chars, n) ==
  IF n = 0 THEN {<<>>}
  ELSE LET shorter == Strings(chars, n - 1)
       IN  shorter \cup {Append(s, c) : s \in shorter, c \in chars}

\* Puzzle ids: a letter, the characters encodeURIComponent escapes, the dot.
IdChars == {"a", "/", "%", " ", "."}
PuzzleIds == Strings(IdChars, MaxIdLen)

\* encodeURIComponent, on one character: '/', ' ' and '%' are escaped as
\* their UTF-8 byte, letters and '.' are unreserved.
EncodeChar(c) ==
  IF c = "/" THEN <<"%", "2", "F">>
  ELSE IF c = " " THEN <<"%", "2", "0">>
  ELSE IF c = "%" THEN <<"%", "2", "5">>
  ELSE <<c>>

RECURSIVE EncodeURIComponent(_)
EncodeURIComponent(s) ==
  IF s = <<>> THEN <<>> ELSE EncodeChar(Head(s)) \o EncodeURIComponent(Tail(s))

\* generateInviteLink (1-5): `${baseUrl}/join/${inviteCode}`
generateInviteLink(puzzleId) ==
  <<Origin, "/", JoinWord, "/">> \o EncodeURIComponent(puzzleId)

\* String.prototype.split(sep)
RECURSIVE Split(_, _)
Split(s, sep) ==
  IF s = <<>> THEN << <<>> >>
  ELSE LET rest == Split(Tail(s), sep)
       IN  IF Head(s) = sep THEN << <<>> >> \o rest
           ELSE << <<Head(s)>> \o Head(rest) >> \o Tail(rest)

\* Array.prototype.join(sep)
RECURSIVE JoinParts(_, _)
JoinParts(parts, sep) ==
  IF Len(parts) = 0 THEN <<>>
  ELSE IF Len(parts) = 1 THEN parts[1]
  ELSE parts[1] \o <<sep>> \o JoinParts(Tail(parts), sep)

\* new URL(inviteLink) (9, 21) succeeds on the origin alone or followed by
\* a path; a string of path characters without the origin has no scheme
\* and makes the constructor throw.
IsUrl(inviteLink) ==
  /\ Len(inviteLink) >= 1
  /\ inviteLink[1] = Origin
  /\ Len(inviteLink) >= 2 => inviteLink[2] = "/"

\* The path state of the URL parser: a '..' segment removes the segment
\* before it, a '.' segment is skipped, and either one at the end of the
\* path leaves an empty last segment.
RECURSIVE PathSegments(_, _)
PathSegments(segments, path) ==
  IF segments = <<>> THEN path
  ELSE LET segment == Head(segments)
           last == Len(segments) = 1
           shortened == IF path = <<>> THEN path ELSE SubSeq(path, 1, Len(path) - 1)
           next == IF segment = <<".", ".">>
                   THEN IF last THEN Append(shortened, <<>>) ELSE shortened
                   ELSE IF segment = <<".">>
                   THEN IF last THEN Append(path, <<>>) ELSE path
                   ELSE Append(path, segment)
       IN  PathSegments(Tail(segments), next)

\* url.pathname (10, 22)
Pathname(inviteLink) ==
  LET raw == IF Len(inviteLink) >= 2 THEN SubSeq(inviteLink, 3, Len(inviteLink)) ELSE <<>>
  IN  <<"/">> \o JoinParts(PathSegments(Split(raw, "/"), <<>>), "/")

\* decodeURIComponent: %XX with two hexadecimal digits is a byte; a byte
\* below 0x80 is its character, a higher byte starts or continues a
\* sequence of several bytes, which no string this short completes.
HexDigits == {"0", "2", "5", "a", "F"}
AsciiHigh == {"0", "2", "5"}
CharOf(high, low) ==
  IF <<high, low>> = <<"2", "F">> THEN "/"
  ELSE IF <<high, low>> = <<"2", "0">> THEN " "
  ELSE IF <<high, low>> = <<"2", "5">> THEN "%"
  ELSE "\\x" \o high \o low

RECURSIVE DecodeURIComponent(_)
DecodeURIComponent(s) ==
  IF s = <<>> THEN [threw |-> FALSE, value |-> <<>>]
  ELSE IF Head(s) # "%"
  THEN LET rest == DecodeURIComponent(Tail(s))
       IN  [threw |-> rest.threw, value |-> <<Head(s)>> \o rest.value]
  ELSE IF Len(s) < 3 \/ s[2] \notin AsciiHigh \/ s[3] \notin HexDigits
  THEN [threw |-> TRUE, value |-> <<>>]
  ELSE LET rest == DecodeURIComponent(SubSeq(s, 4, Len(s)))
       IN  [threw |-> rest.threw, value |-> <<CharOf(s[2], s[3])>> \o rest.value]

\* What extractPuzzleId returns: null, or a string.
ReturnedNull == [isNull |-> TRUE, value |-> <<>>]
Returned(value) == [isNull |-> FALSE, value |-> value]

\* extractPuzzleId without its catch around decodeURIComponent: the code
\* is handed back as it stands.
extractPuzzleIdUncaught(inviteLink) ==
  IF ~IsUrl(inviteLink) THEN ReturnedNull
  ELSE LET pathParts == Split(Pathname(inviteLink), "/")
       IN  Returned(pathParts[Len(pathParts)])

\* extractPuzzleId (7-17)
extractPuzzleId(inviteLink) ==
  IF ~IsUrl(inviteLink) THEN ReturnedNull
  ELSE LET pathParts == Split(Pathname(inviteLink), "/")
           inviteCode == pathParts[Len(pathParts)]
           decoded == DecodeURIComponent(inviteCode)
       IN  IF decoded.threw THEN ReturnedNull ELSE Returned(decoded.value)

\* String.prototype.startsWith
StartsWith(s, prefix) ==
  Len(s) >= Len(prefix) /\ SubSeq(s, 1, Len(prefix)) = prefix

\* isValidInviteLink (19-26)
isValidInviteLink(inviteLink) ==
  IF ~IsUrl(inviteLink) THEN FALSE
  ELSE /\ StartsWith(Pathname(inviteLink), <<"/", JoinWord, "/">>)
       /\ ~extractPuzzleId(inviteLink).isNull

\* The links the functions are given besides the generated ones: a path
\* of at most MaxPathLen characters, after the origin or on its own.
PathChars == {"/", JoinWord, "a", ".", "%", "2", "F"}
InviteLinks ==
  LET paths == Strings(PathChars, MaxPathLen)
  IN  paths \cup {<<Origin, "/">> \o path : path \in paths}

\* No invite-link function was called yet.
NoInvite == [op |-> "none", puzzleId |-> <<>>, inviteLink |-> <<>>, roundTrip |-> FALSE, extracted |-> ReturnedNull, valid |-> FALSE]

(***************************************************************************)
(* PuzzleGame: helpers.                                                    *)
(***************************************************************************)
\* A bag of n copies of x.
Copies(x, n) == IF n = 0 THEN EmptyBag ELSE [e \in {x} |-> n]

\* A piece that is not placed, in the given pose.
Unplaced(pose) == [isPlaced |-> FALSE, dist |-> pose[1], rot |-> pose[2]]

\* The pieces createPuzzlePieces builds for one call (554-592):
\* gridSize.x * gridSize.y new objects, isPlaced false, arranged in the side
\* containers. Pieces in the same state are not told apart.
NewPieces(grid) ==
  Copies(Unplaced(ScatteredPose), GridCount(grid))

\* The bag with one piece in state old now in state new.
Replace(pieces, old, new) == (pieces (-) Copies(old, 1)) (+) Copies(new, 1)

\* The number of pieces of the scene whose userData.isPlaced is true.
PlacedCount(pieces) ==
  LET placed == {p \in BagToSet(pieces) : p.isPlaced}
  IN  BagCardinality([p \in placed |-> pieces[p]])

\* handleMouseUp's snap test on a piece.
IsNearCorrectPosition(dist) == dist < SnapDistance
RotationDiff(rot) == Abs(JsRem(rot, TwoPi))
\* A rotation test that takes rotationDiff as it is, without the full turn.
IsNearCorrectRotationNoWrap(rot) == RotationDiff(rot) < RotationTolerance
IsNearCorrectRotation(rot) ==
  \/ RotationDiff(rot) < RotationTolerance
  \/ Abs(RotationDiff(rot) - TwoPi) < RotationTolerance
Snaps(piece) == IsNearCorrectPosition(piece.dist) /\ IsNearCorrectRotation(piece.rot)

\* handleMouseMove's uniform correctPosition.value (805-811), in thousandths.
CorrectPositionValue(piece) ==
  IF IsNearCorrectPosition(piece.dist) /\ IsNearCorrectRotation(piece.rot)
  THEN 1000 - Max((piece.dist * 1000) \div SnapDistance,
                  (RotationDiff(piece.rot) * 1000) \div RotationTolerance)
  ELSE 0

\* updateGameState of the component: no write without a gameId.
UpdateGameState(updates, newState) ==
  IF gameId = NULL THEN updates ELSE updates \cup {newState}

NoPieces == EmptyBag

\* selectedPieceRef.current === null
NoPiece == [isPlaced |-> FALSE, dist |-> -1, rot |-> 0]

(***************************************************************************)
(* PuzzleGame: the render that follows a handler and the effects it runs.  *)
(* The handler's state updates are the n... arguments; alive is the        *)
(* interval after the handler's own clearInterval calls; newAttempt says   *)
(* that the handler reset progress to 0.                                   *)
(*   effect [isTimerRunning] (708-720): cleanup clears the interval, the   *)
(*     body schedules a new one when isTimerRunning;                       *)
(*   effect [progress] (722-730): at progress === 100 stops the timer and  *)
(*     calls synchronousCompletion, which awaits                           *)
(*     handlePuzzleCompletionCultural (returning at once without a user);  *)
(*   effect [progress, startTime, difficulty, image, timeElapsed,          *)
(*     totalPieces, completedPieces] (984-1013): at progress === 100 with  *)
(*     a user calls handlePuzzleCompletion and updateGameState;            *)
(*   effect [gameState, totalPieces] (732-879): registers the mouse        *)
(*     handlers again, with a fresh isDragging = false.                    *)
(***************************************************************************)
Commit(nProgress, nDifficulty, nImage, nTime, nTotal, nCompleted, nRunning, nGameState, nDragging, alive, newAttempt) ==
  LET runningChanged == nRunning # isTimerRunning
      alive1 == IF runningChanged THEN nRunning ELSE alive
      progHit == nProgress # progress /\ IsHundred(nProgress)
      depsChanged == <<nProgress, nDifficulty, nImage, nTime, nTotal, nCompleted>>
                       # <<progress, difficulty, image, timeElapsed, totalPieces,
                           completedPieces>>
      hpc == depsChanged /\ IsHundred(nProgress) /\ authUser
      base == IF newAttempt THEN 0 ELSE hpcCalls
      sbase == IF newAttempt THEN 0 ELSE syncCalls
      updates1 == IF hpc THEN UpdateGameState(stateUpdates, "completed")
                  ELSE stateUpdates
  IN  /\ progress' = nProgress
      /\ difficulty' = nDifficulty
      /\ image' = nImage
      /\ timeElapsed' = nTime
      /\ totalPieces' = nTotal
      /\ completedPieces' = nCompleted
      /\ gameState' = nGameState
      /\ isTimerRunning' = IF progHit THEN FALSE ELSE nRunning
      /\ timerAlive' = IF progHit THEN FALSE ELSE alive1
      /\ isDragging' = IF nGameState # gameState \/ nTotal # totalPieces
                       THEN FALSE ELSE nDragging
      /\ syncCalls' = IF progHit THEN Min(sbase + 1, MaxCalls) ELSE sbase
      /\ hpcCalls' = IF hpc THEN Min(base + 1, MaxCalls) ELSE base
      /\ progHit /\ authUser => pendingCompletions < MaxPendingCompletions
      /\ pendingCompletions' = IF progHit /\ authUser
                               THEN pendingCompletions + 1
                               ELSE pendingCompletions
      \* without a user synchronousCompletion runs through to its end
      /\ errorLog' = IF newAttempt THEN FALSE ELSE errorLog
      /\ showShareModal' = IF progHit /\ ~authUser THEN TRUE ELSE showShareModal
      /\ stateUpdates' = IF progHit /\ ~authUser
                         THEN UpdateGameState(updates1, "completed")
                         ELSE updates1

\* The part of createPuzzlePieces before its await: the old pieces leave the
\* scene and the ref is emptied; the call then waits for its texture, with
\* the selectedDifficulty of the render it was created in.
BeginLoad(kind) ==
  /\ BagCardinality(pendingLoads) < MaxPendingLoads
  /\ puzzlePiecesRef' = NoPieces
  /\ pendingLoads' =
       pendingLoads (+) Copies([kind |-> kind, grid |-> selectedDifficulty], 1)

\* Pointer-driven handlers run one at a time: not under the loading
\* overlay (1353-1367), not under the ShareModal (945-982, rendered at 1394
\* over the whole window) and not while a piece is held.
UiFree == ~loading /\ ~showShareModal /\ selectedPieceRef = NoPiece

GameInitial ==
  /\ image = NULL
  /\ loading = FALSE
  /\ progress = ProgressZero
  /\ completedPieces = 0
  /\ totalPieces = 0
  /\ timeElapsed = 0
  /\ isTimerRunning = FALSE
  /\ gameState = "initial"
  /\ showShareModal = FALSE
  /\ difficulty = "4"
  /\ gameId = NULL
  /\ selectedDifficulty = "easy"
  /\ puzzlePiecesRef = NoPieces
  /\ selectedPieceRef = NoPiece
  /\ timerAlive = FALSE
  /\ isDragging = FALSE
  /\ pendingLoads = EmptyBag
  /\ pendingCompletions = 0
  /\ hpcCalls = 0
  /\ syncCalls = 0
  /\ errorLog = FALSE
  /\ stateUpdates = {}
  /\ isModalOpen = FALSE

\* The history of misplacements of the attempt in play: "none" or "some"
\* where it is recorded, "unrecorded" where Init leaves it out.
NewAttempt(history) == IF history = "unrecorded" THEN history ELSE "none"
Misdrop(history) == IF history = "unrecorded" THEN history ELSE "some"

\* A misplacement: the piece held is dropped during play and does not snap
\* (831-838).
Misplacement ==
  selectedPieceRef # NoPiece /\ gameState = "playing" /\ ~Snaps(selectedPieceRef)

\* userData.misplaced of a piece: read by checkAchievements (1088) and
\* assigned nowhere, so it is undefined on every piece.
UserDataMisplaced(p) == FALSE

\* checkAchievements (1081-1097), as the ids of the achievements.
checkAchievements ==
  (IF timeElapsed < 120 THEN {"speed_demon"} ELSE {})
    \cup (IF ~\E p \in BagToSet(puzzlePiecesRef) : UserDataMisplaced(p)
          THEN {"perfectionist"} ELSE {})
    \cup (IF difficulty = "expert" THEN {"persistent"} ELSE {})

(***************************************************************************)
(* PuzzleGame: handlers.                                                   *)
(***************************************************************************)
\* ImageSelectionModal onSelect (1372-1382), up to the await.
SelectImage(img) ==
  /\ UiFree
  /\ BeginLoad("select")
  /\ Commit(progress, difficulty, img, timeElapsed, totalPieces, completedPieces,
            isTimerRunning, gameState, isDragging, timerAlive, FALSE)
  /\ UNCHANGED <<loading, gameId, selectedDifficulty, selectedPieceRef,
                 authUser>>
  /\ UNCHANGED <<isPremium, isModalOpen, completedPuzzles, invite, misplacedDrops>>
  /\ UNCHANGED hvars

\* replayPuzzle (1199-1215), up to the await.
ReplayPuzzle ==
  /\ UiFree
  /\ image # NULL
  /\ loading' = TRUE
  /\ BeginLoad("replay")
  /\ Commit(ProgressZero, difficulty, image, 0, totalPieces, 0, TRUE, "playing",
            isDragging, FALSE, TRUE)
  /\ UNCHANGED <<gameId, selectedDifficulty, selectedPieceRef, authUser>>
  /\ UNCHANGED <<isPremium, isModalOpen, completedPuzzles, invite>>
  /\ misplacedDrops' = NewAttempt(misplacedDrops)
  /\ UNCHANGED hvars

\* handleDifficultyChange (1223-1254), up to the await.
HandleDifficultyChange(d) ==
  /\ UiFree
  /\ selectedDifficulty' = d
  /\ IF image # NULL
     THEN loading' = TRUE /\ BeginLoad("difficulty")
     ELSE UNCHANGED <<loading, puzzlePiecesRef, pendingLoads>>
  /\ Commit(progress, d, image, timeElapsed, totalPieces, completedPieces,
            isTimerRunning, gameState, isDragging, timerAlive, FALSE)
  /\ UNCHANGED <<gameId, selectedPieceRef, authUser>>
  /\ UNCHANGED <<isPremium, isModalOpen, completedPuzzles, invite, misplacedDrops>>
  /\ UNCHANGED hvars

\* The rest of createPuzzlePieces (542-607) once the texture has loaded, and
\* the caller's continuation.
FinishLoad(l) ==
  /\ BagIn(l, pendingLoads)
  /\ pendingLoads' = pendingLoads (-) Copies(l, 1)
  /\ puzzlePiecesRef' = puzzlePiecesRef (+) NewPieces(l.grid)
  /\ loading' = FALSE
  /\ IF l.kind = "replay"
     THEN Commit(progress, difficulty, image, timeElapsed, GridCount(l.grid),
                 completedPieces, isTimerRunning, gameState, isDragging,
                 timerAlive, FALSE)
     ELSE Commit(ProgressZero, difficulty, image, 0, GridCount(l.grid), 0, TRUE,
                 "playing", isDragging, timerAlive, TRUE)
  /\ UNCHANGED <<gameId, selectedDifficulty, selectedPieceRef, authUser>>
  /\ UNCHANGED <<isPremium, isModalOpen, completedPuzzles, invite>>
  /\ misplacedDrops' = IF l.kind = "replay" THEN misplacedDrops ELSE NewAttempt(misplacedDrops)
  /\ UNCHANGED hvars

\* The texture fails to load: createPuzzlePieces rejects (608-610). Only
\* handleDifficultyChange handles the rejection (1245-1252).
FailLoad(l) ==
  /\ BagIn(l, pendingLoads)
  /\ pendingLoads' = pendingLoads (-) Copies(l, 1)
  /\ loading' = IF l.kind = "difficulty" THEN FALSE ELSE loading
  /\ UNCHANGED <<image, progress, completedPieces, totalPieces, timeElapsed,
                 isTimerRunning, gameState, showShareModal, difficulty,
                 gameId, selectedDifficulty, puzzlePiecesRef,
                 selectedPieceRef, timerAlive, isDragging,
                 pendingCompletions, authUser, hpcCalls, syncCalls, errorLog,
                 stateUpdates>>
  /\ UNCHANGED <<isPremium, isModalOpen, completedPuzzles, invite, misplacedDrops>>
  /\ UNCHANGED hvars

\* The pieces after handleResetGame's loop (446-455): each at a random
\* offset and rotation, isPlaced false; near of the count pieces end within
\* the thresholds, the others away from the target.
ResetPieces(near, count) ==
  Copies(Unplaced(NearPose), near) (+) Copies(Unplaced(ScatteredPose), count - near)

\* togglePause with the scattering loop of handleResetGame run on the
\* pieces as well.
TogglePauseScatter ==
  /\ UiFree
  /\ gameState \in {"playing", "paused"}
  /\ puzzlePiecesRef' = ResetPieces(0, BagCardinality(puzzlePiecesRef))
  /\ LET nState == IF gameState = "playing" THEN "paused" ELSE "playing"
     IN  Commit(progress, difficulty, image, timeElapsed, totalPieces,
                completedPieces, nState = "playing", nState, isDragging,
                timerAlive, FALSE)
  /\ UNCHANGED <<loading, gameId, selectedDifficulty, selectedPieceRef,
                 pendingLoads, authUser>>
  /\ UNCHANGED <<isPremium, isModalOpen, completedPuzzles, invite, misplacedDrops>>
  /\ UNCHANGED hvars

\* togglePause (396-410); its button is rendered once gameState # 'initial'.
TogglePause ==
  /\ UiFree
  /\ gameState \in {"playing", "paused"}
  /\ LET nState == IF gameState = "playing" THEN "paused" ELSE "playing"
     IN  Commit(progress, difficulty, image, timeElapsed, totalPieces,
                completedPieces, nState = "playing", nState, isDragging,
                timerAlive, FALSE)
  /\ UNCHANGED <<loading, gameId, selectedDifficulty, puzzlePiecesRef,
                 selectedPieceRef, pendingLoads, authUser>>
  /\ UNCHANGED <<isPremium, isModalOpen, completedPuzzles, invite, misplacedDrops>>
  /\ UNCHANGED hvars

\* handleResetGame (438-458).
HandleResetGame ==
  /\ UiFree
  /\ image # NULL
  /\ \E near \in 0..Min(MaxResetNear, BagCardinality(puzzlePiecesRef)) :
       puzzlePiecesRef' = ResetPieces(near, BagCardinality(puzzlePiecesRef))
  /\ Commit(ProgressZero, difficulty, image, 0, totalPieces, 0, TRUE, gameState,
            isDragging, timerAlive, TRUE)
  /\ UNCHANGED <<loading, gameId, selectedDifficulty, selectedPieceRef,
                 pendingLoads, authUser>>
  /\ UNCHANGED <<isPremium, isModalOpen, completedPuzzles, invite>>
  /\ misplacedDrops' = NewAttempt(misplacedDrops)
  /\ UNCHANGED hvars

\* A mousedown that picks the piece under the pointer whatever its flag.
HandleMouseDownAny(p) ==
  /\ UiFree
  /\ gameState = "playing"
  /\ BagIn(p, puzzlePiecesRef)
  /\ selectedPieceRef' = p /\ isDragging' = TRUE
  /\ UNCHANGED <<image, loading, progress, completedPieces, totalPieces,
                 timeElapsed, isTimerRunning, gameState, showShareModal,
                 difficulty, gameId, selectedDifficulty, puzzlePiecesRef,
                 timerAlive, pendingLoads, pendingCompletions, authUser,
                 hpcCalls, syncCalls, errorLog, stateUpdates>>
  /\ UNCHANGED <<isPremium, isModalOpen, completedPuzzles, invite, misplacedDrops>>
  /\ UNCHANGED hvars

\* handleMouseDown (744-777) on piece p.
HandleMouseDown(p) ==
  /\ UiFree
  /\ gameState = "playing"
  /\ BagIn(p, puzzlePiecesRef)
  /\ IF p.isPlaced
     THEN UNCHANGED <<selectedPieceRef, isDragging>>
     ELSE selectedPieceRef' = p /\ isDragging' = TRUE
  /\ UNCHANGED <<image, loading, progress, completedPieces, totalPieces,
                 timeElapsed, isTimerRunning, gameState, showShareModal,
                 difficulty, gameId, selectedDifficulty, puzzlePiecesRef,
                 timerAlive, pendingLoads, pendingCompletions, authUser,
                 hpcCalls, syncCalls, errorLog, stateUpdates>>
  /\ UNCHANGED <<isPremium, isModalOpen, completedPuzzles, invite, misplacedDrops>>
  /\ UNCHANGED hvars

\* handleMouseMove (779-813): the held piece follows the pointer, and turns
\* with the shift key.
HandleMouseMove(d, r) ==
  /\ gameState = "playing"
  /\ isDragging
  /\ selectedPieceRef # NoPiece
  /\ LET moved == [selectedPieceRef EXCEPT !.dist = d, !.rot = r]
     IN  /\ puzzlePiecesRef' = Replace(puzzlePiecesRef, selectedPieceRef, moved)
         /\ selectedPieceRef' = moved
  /\ UNCHANGED <<image, loading, progress, completedPieces, totalPieces,
                 timeElapsed, isTimerRunning, gameState, showShareModal,
                 difficulty, gameId, selectedDifficulty, timerAlive,
                 isDragging, pendingLoads, pendingCompletions, authUser,
                 hpcCalls, syncCalls, errorLog, stateUpdates>>
  /\ UNCHANGED <<isPremium, isModalOpen, completedPuzzles, invite, misplacedDrops>>
  /\ UNCHANGED hvars

\* A snapping drop that moves the piece onto its target without marking it.
PlacePieceUnmarked(piece) == [isPlaced |-> FALSE, dist |-> 0, rot |-> 0]

\* The piece record after a drop that snaps (838-850): handlePieceSnap moves
\* it onto its target and the piece is marked placed.
PlacePiece(piece) == [isPlaced |-> TRUE, dist |-> 0, rot |-> 0]

\* handleMouseUp (815-865), on mouseup and on mouseleave. With no piece
\* held (a mouseup that follows the drop again) it returns at once (816).
HandleMouseUp ==
  /\ IF selectedPieceRef = NoPiece
     THEN UNCHANGED gvars
     ELSE /\ LET piece == selectedPieceRef
                 counts == gameState = "playing" /\ Snaps(piece) /\ ~piece.isPlaced
                 newCount == completedPieces + 1
             IN  /\ puzzlePiecesRef' =
                      IF gameState = "playing" /\ Snaps(piece)
                      THEN Replace(puzzlePiecesRef, piece, PlacePiece(piece))
                      ELSE puzzlePiecesRef
                 /\ IF counts
                    THEN Commit(ProgressOf(newCount, totalPieces), difficulty,
                                image, timeElapsed, totalPieces, newCount,
                                isTimerRunning, gameState, FALSE, timerAlive,
                                FALSE)
                    ELSE Commit(progress, difficulty, image, timeElapsed,
                                totalPieces, completedPieces, isTimerRunning,
                                gameState, FALSE, timerAlive, FALSE)
          /\ selectedPieceRef' = NoPiece
          /\ UNCHANGED <<loading, gameId, selectedDifficulty, pendingLoads,
                         authUser>>
  /\ UNCHANGED <<isPremium, isModalOpen, completedPuzzles, invite>>
  /\ misplacedDrops' = IF Misplacement THEN Misdrop(misplacedDrops) ELSE misplacedDrops
  /\ UNCHANGED hvars

\* The interval callback (710-712).
TimerTick ==
  /\ timerAlive
  /\ timeElapsed < MaxTime
  /\ Commit(progress, difficulty, image, timeElapsed + 1, totalPieces,
            completedPieces, isTimerRunning, gameState, isDragging, timerAlive,
            FALSE)
  /\ UNCHANGED <<loading, gameId, selectedDifficulty, puzzlePiecesRef,
                 selectedPieceRef, pendingLoads, authUser>>
  /\ UNCHANGED <<isPremium, isModalOpen, completedPuzzles, invite, misplacedDrops>>
  /\ UNCHANGED hvars

\* The end of synchronousCompletion (1029-1041) after its await returned.
FinishCompletion ==
  /\ pendingCompletions' = pendingCompletions - 1
  /\ stateUpdates' = UpdateGameState(stateUpdates, "completed")
  /\ showShareModal' = TRUE

\* The size of the query of handlePuzzleCompletionCultural (1122-1129):
\* the user's documents with completedAt >= startOfMonth.
PuzzleCount(docs) ==
  LET inMonth == {t \in BagToSet(docs) : t >= StartOfMonth}
  IN  BagCardinality([t \in inMonth |-> docs[t]])

\* addDoc(collection(db, 'completed_puzzles'), ...) (1106-1113); the
\* collection is followed up to MaxDocs documents.
AddDoc(docs, completedAt) ==
  IF BagCardinality(docs) < MaxDocs THEN docs (+) Copies(completedAt, 1) ELSE docs

\* addDoc resolves in handlePuzzleCompletionCultural (1106-1137): the
\* document is stored with the server's time, then for a user who is not
\* premium the month's documents are counted.
AddDocOk ==
  /\ pendingCompletions > 0
  /\ FinishCompletion
  /\ \E completedAt \in NewCompletedAt :
       completedPuzzles' = AddDoc(completedPuzzles, completedAt)
  /\ isModalOpen' = IF ~isPremium /\ PuzzleCount(completedPuzzles') >= 2
                    THEN TRUE ELSE isModalOpen
  /\ UNCHANGED <<isPremium, invite, misplacedDrops>>
  /\ UNCHANGED <<image, loading, progress, completedPieces, totalPieces,
                 timeElapsed, isTimerRunning, gameState, difficulty, gameId,
                 selectedDifficulty, puzzlePiecesRef, selectedPieceRef,
                 timerAlive, isDragging, pendingLoads, authUser, hpcCalls,
                 syncCalls, errorLog>>
  /\ UNCHANGED hvars

\* addDoc rejects: the catch of handlePuzzleCompletionCultural (1139-1141).
AddDocFail ==
  /\ pendingCompletions > 0
  /\ errorLog' = TRUE
  /\ FinishCompletion
  /\ UNCHANGED <<image, loading, progress, completedPieces, totalPieces,
                 timeElapsed, isTimerRunning, gameState, difficulty, gameId,
                 selectedDifficulty, puzzlePiecesRef, selectedPieceRef,
                 timerAlive, isDragging, pendingLoads, authUser, hpcCalls,
                 syncCalls>>
  /\ UNCHANGED <<isPremium, isModalOpen, completedPuzzles, invite, misplacedDrops>>
  /\ UNCHANGED hvars

\* onClose of UpgradeModal (1387-1390).
CloseUpgradeModal ==
  /\ isModalOpen
  /\ isModalOpen' = FALSE
  /\ UNCHANGED <<image, loading, progress, completedPieces, totalPieces,
                 timeElapsed, isTimerRunning, gameState, showShareModal,
                 difficulty, gameId, selectedDifficulty, puzzlePiecesRef,
                 selectedPieceRef, timerAlive, isDragging, pendingLoads,
                 pendingCompletions, authUser, hpcCalls, syncCalls, errorLog,
                 stateUpdates, isPremium, completedPuzzles, invite, misplacedDrops>>
  /\ UNCHANGED hvars

\* The Close button of ShareModal (975-980).
CloseShareModal ==
  /\ showShareModal
  /\ selectedPieceRef = NoPiece
  /\ showShareModal' = FALSE
  /\ UNCHANGED <<image, loading, progress, completedPieces, totalPieces,
                 timeElapsed, isTimerRunning, gameState, difficulty, gameId,
                 selectedDifficulty, puzzlePiecesRef, selectedPieceRef,
                 timerAlive, isDragging, pendingLoads, pendingCompletions,
                 authUser, hpcCalls, syncCalls, errorLog, stateUpdates>>
  /\ UNCHANGED <<isPremium, isModalOpen, completedPuzzles, invite, misplacedDrops>>
  /\ UNCHANGED hvars

NextGame ==
  \/ \E img \in Images : SelectImage(img)
  \/ ReplayPuzzle
  \/ \E d \in DifficultyIds : HandleDifficultyChange(d)
  \/ \E l \in BagToSet(pendingLoads) : FinishLoad(l)
  \/ \E l \in BagToSet(pendingLoads) : FailLoad(l)
  \/ TogglePause
  \/ HandleResetGame
  \/ \E p \in BagToSet(puzzlePiecesRef) : HandleMouseDown(p)
  \/ \E pose \in DragPoses : HandleMouseMove(pose[1], pose[2])
  \/ HandleMouseUp
  \/ TimerTick
  \/ AddDocOk
  \/ AddDocFail
  \/ CloseShareModal

(***************************************************************************)
(* PuzzleGame: a puzzle in play. The state is the one a load leaves when   *)
(* the difficulty was chosen and the image loaded for it, nothing else in  *)
(* flight; the drags are those of PlayOffsets, PlayHeights, PlayRotations. *)
(***************************************************************************)
PlayDifficulties == DifficultyIds \cup {"medium"}

\* handleMouseMove with the pointer over a point at planar distance x of
\* the target, the piece at height z, turned to r.
PlayMove(x, z, r) == HandleMouseMove(DistanceTo(x, z), r)

\* Play and completions of a signed-in user.
NextQuota ==
  \/ \E p \in BagToSet(puzzlePiecesRef) : HandleMouseDown(p)
  \/ \E x \in PlayOffsets, z \in PlayHeights, r \in PlayRotations : PlayMove(x, z, r)
  \/ HandleMouseUp
  \/ HandleResetGame
  \/ AddDocOk
  \/ AddDocFail
  \/ CloseShareModal
  \/ CloseUpgradeModal

NextPlay ==
  \/ \E p \in BagToSet(puzzlePiecesRef) : HandleMouseDown(p)
  \/ \E x \in PlayOffsets, z \in PlayHeights, r \in PlayRotations : PlayMove(x, z, r)
  \/ HandleMouseUp
  \/ HandleResetGame
  \/ CloseShareModal



(***************************************************************************)
(* useMultiplayerGame: values.                                             *)
(***************************************************************************)
\* The users whose clients use the hook on the session, and its pieces.
Clients == {"u1", "u2"}
PieceIds == {"p1"}

\* snapshot.val() of a numeric field that holds nothing.
NoValue == -1

\* Progress percentages that callers report.
ReportValues == {50, 100}

\* useState of gameState (1415-1419).
InitialGameState ==
  [status |-> "waiting", isPlaying |-> FALSE, totalPiecesPlaced |-> 0]

Statuses == {"waiting", "playing", "paused", "completed"}

\* games/{gameId} with nothing under it (never written, or removed).
NoGame ==
  [status |-> NULL, progress |-> NoValue, totalPiecesPlaced |-> NoValue,
   winner |-> NULL, endedAt |-> NoValue, players |-> <<>>, pieces |-> <<>>]

\* The position objects callers pass to updatePiecePosition: coordinates,
\* and isPlaced: true when the caller commits a placement.
PositionPayloads == {[x |-> 1, isPlaced |-> FALSE], [x |-> 0, isPlaced |-> TRUE]}

\* The states callers pass to updateGameState.
NewStates == [status : Statuses]

\* f with x mapped to v (x joins the domain when new).
Put(f, x, v) == [y \in (DOMAIN f) \cup {x} |-> IF y = x THEN v ELSE f[y]]
\* f without x.
\* A removal that takes every entry with it.
DropEvery(f, x) == [y \in {} |-> f[y]]
Drop(f, x) == [y \in (DOMAIN f) \ {x} |-> f[y]]


HookIdle ==
  /\ db = NoGame
  /\ conn = [c \in Clients |-> "out"]
  /\ isHost = [c \in Clients |-> FALSE]
  /\ hookProgress = [c \in Clients |-> 0]
  /\ progressHistory = {}
  /\ progressOp = [c \in Clients |-> NoValue]
  /\ pieceOp = [c \in Clients |-> FALSE]
  /\ maxReported = 0
  /\ now = 0
  /\ onDisconnectOp = [c \in Clients |-> NoValue]
  /\ hookError = [c \in Clients |-> NULL]
  /\ hookLoading = [c \in Clients |-> TRUE]
  /\ opResult = [c \in Clients |-> NULL]

\* A user the quota never concerns: premium, with the collection at the
\* followed maximum.
NoQuota ==
  /\ invite = NoInvite
  /\ isPremium = TRUE
  /\ completedPuzzles = Copies(StartOfMonth, MaxDocs)

\* The history of misplacements is left out.
NoHistory == misplacedDrops = "unrecorded"

InitGame == GameInitial /\ authUser \in BOOLEAN /\ NoQuota /\ NoHistory /\ HookIdle

\* After handleDifficultyChange(d) and the load of the image for d
\* (520-612): d's pieces in the side containers, the timer running.
PuzzleLoaded(d) ==
  /\ selectedDifficulty = d
  /\ difficulty = d
  /\ totalPieces = GridCount(d)
  /\ puzzlePiecesRef = NewPieces(d)
  /\ image \in Images
  /\ loading = FALSE
  /\ progress = ProgressZero
  /\ completedPieces = 0
  /\ timeElapsed = 0
  /\ isTimerRunning = TRUE
  /\ timerAlive = TRUE
  /\ gameState = "playing"
  /\ showShareModal = FALSE
  /\ gameId = NULL
  /\ selectedPieceRef = NoPiece
  /\ isDragging = FALSE
  /\ pendingLoads = EmptyBag
  /\ pendingCompletions = 0
  /\ hpcCalls = 0
  /\ syncCalls = 0
  /\ errorLog = FALSE
  /\ stateUpdates = {}
  /\ isModalOpen = FALSE

InitPlay ==
  /\ \E d \in PlayDifficulties : PuzzleLoaded(d)
  /\ misplacedDrops = "none"
  /\ authUser = FALSE
  /\ NoQuota
  /\ HookIdle

\* The documents a signed-in user may already have: at most one of the
\* month before, one stamped at the start of the month and one later one,
\* fewer than MaxDocs in all.
EarlierDocs ==
  {docs \in UNION {[S -> {1}] : S \in SUBSET CompletedAts} :
     BagCardinality(docs) < MaxDocs}

\* A signed-in user, premium or not, playing the easy puzzle.
InitQuota ==
  /\ PuzzleLoaded("easy")
  /\ authUser = TRUE
  /\ isPremium \in BOOLEAN
  /\ completedPuzzles \in EarlierDocs
  /\ invite = NoInvite
  /\ NoHistory
  /\ HookIdle

\* The session either does not exist yet or was created in status waiting;
\* every client's hook is still to be mounted, as host or as guest.
InitHook ==
  /\ GameInitial
  /\ NoHistory
  /\ authUser = FALSE
  /\ NoQuota
  /\ db \in {NoGame, [NoGame EXCEPT !.status = "waiting"]}
  /\ conn = [c \in Clients |-> "out"]
  /\ isHost \in [Clients -> BOOLEAN]
  /\ hookProgress = [c \in Clients |-> 0]
  /\ progressHistory = {NoValue}
  /\ progressOp = [c \in Clients |-> NoValue]
  /\ pieceOp = [c \in Clients |-> FALSE]
  /\ maxReported = 0
  /\ now = 0
  /\ onDisconnectOp = [c \in Clients |-> NoValue]
  /\ hookError = [c \in Clients |-> NULL]
  /\ hookLoading = [c \in Clients |-> TRUE]
  /\ opResult = [c \in Clients |-> NULL]

(***************************************************************************)
(* useMultiplayerGame: the store's primitives.                             *)
(***************************************************************************)
\* update(ref(database, `games/${gameId}`), {progress: v})
WriteProgress(v) ==
  /\ db' = [db EXCEPT !.progress = v]
  /\ progressHistory' = progressHistory \cup {v}

\* update(ref(database, `games/${gameId}`), {status: s, ...})
WriteStatus(s) == db' = [db EXCEPT !.status = s]

\* remove(gameRef)
RemoveGame ==
  /\ db' = NoGame
  /\ progressHistory' = progressHistory \cup {NoValue}
  /\ maxReported' = 0

(***************************************************************************)
(* useMultiplayerGame: the effect (1429-1515).                             *)
(***************************************************************************)
\* Mount: the effect body writes the player record (1438-1446) and
\* registers the on-disconnect update (1448-1451) and the listeners. The
\* update's lastActive is the Date.now() of the registration (1450).
Join(c) ==
  /\ conn[c] \in {"out", "left"}
  /\ conn' = [conn EXCEPT ![c] = "in"]
  /\ db' = [db EXCEPT !.players =
              Put(db.players, c,
                  [isHost |-> isHost[c], isOnline |-> TRUE, lastActive |-> now])]
  /\ onDisconnectOp' = [onDisconnectOp EXCEPT ![c] = now]
  /\ hookProgress' = [hookProgress EXCEPT ![c] = 0]
  /\ UNCHANGED <<isHost, progressHistory, progressOp, pieceOp, maxReported>>
  /\ hookError' = [hookError EXCEPT ![c] = NULL]
  /\ hookLoading' = [hookLoading EXCEPT ![c] = TRUE]
  /\ UNCHANGED <<now, opResult>>
  /\ UNCHANGED gvars

\* Unmount: the effect cleanup (1497-1508).
Leave(c) ==
  /\ conn[c] = "in"
  /\ conn' = [conn EXCEPT ![c] = "left"]
  /\ IF isHost[c]
     THEN RemoveGame
     ELSE /\ db' = [db EXCEPT !.players = Drop(db.players, c)]
          /\ UNCHANGED <<progressHistory, maxReported>>
  /\ UNCHANGED <<isHost, hookProgress, progressOp, pieceOp>>
  /\ UNCHANGED <<now, onDisconnectOp, hookError, hookLoading, opResult>>
  /\ UNCHANGED gvars

\* An on-disconnect operation that removes the player record.
OnDisconnectRemove(players, c) == Drop(players, c)

\* The update registered with onDisconnect(userRef) (1448-1451), applied to
\* the player records: it merges {isOnline, lastActive} into the record of
\* c, creating it when it is not there.
OnDisconnectUpdate(players, c) ==
  Put(players, c,
      IF c \in DOMAIN players
      THEN [players[c] EXCEPT !.isOnline = FALSE,
                              !.lastActive = onDisconnectOp[c]]
      ELSE [isHost |-> FALSE, isOnline |-> FALSE,
            lastActive |-> onDisconnectOp[c]])

\* The connection of a client drops: the server applies the update
\* registered with onDisconnect(userRef) (1448-1451).
Disconnect(c) ==
  /\ conn[c] \in {"in", "left"}
  /\ conn' = [conn EXCEPT ![c] = "lost"]
  /\ db' = [db EXCEPT !.players = OnDisconnectUpdate(db.players, c)]
  /\ UNCHANGED <<isHost, hookProgress, progressHistory, progressOp, pieceOp,
                 maxReported>>
  /\ UNCHANGED <<now, onDisconnectOp, hookError, hookLoading, opResult>>
  /\ UNCHANGED gvars

\* gameListener (1453-1470): the value of games/{gameId} reaches the client;
\* it is null when nothing is stored under the session.
GameListener(c) ==
  /\ conn[c] = "in"
  /\ hookError' = [hookError EXCEPT ![c] =
                     IF db = NoGame THEN "Game not found" ELSE hookError[c]]
  /\ hookLoading' = [hookLoading EXCEPT ![c] = FALSE]
  /\ UNCHANGED <<db, conn, isHost, hookProgress, progressHistory, progressOp,
                 pieceOp, maxReported, now, onDisconnectOp, opResult>>
  /\ UNCHANGED gvars

\* Time passes.
Tick ==
  /\ now < MaxNow
  /\ now' = now + 1
  /\ UNCHANGED <<db, conn, isHost, hookProgress, progressHistory, progressOp,
                 pieceOp, maxReported, onDisconnectOp, hookError, hookLoading,
                 opResult>>
  /\ UNCHANGED gvars

\* A listener that stores whatever the snapshot holds.
ListenerLastWins(prev, v) == IF v = NoValue THEN 0 ELSE v

\* progressListener (1486-1489) receives a snapshot v of
\* games/{gameId}/progress.
ListenerProgress(prev, v) ==
  LET newProgress == IF v = NoValue THEN 0 ELSE v
  IN  IF newProgress > prev THEN newProgress ELSE prev

ProgressListener(c, v) ==
  /\ conn[c] = "in"
  /\ v \in progressHistory
  /\ hookProgress' = [hookProgress EXCEPT ![c] = ListenerProgress(hookProgress[c], v)]
  /\ UNCHANGED <<db, conn, isHost, progressHistory, progressOp, pieceOp,
                 maxReported>>
  /\ UNCHANGED <<now, onDisconnectOp, hookError, hookLoading, opResult>>
  /\ UNCHANGED gvars

(***************************************************************************)
(* useMultiplayerGame: the operations the hook returns.                    *)
(***************************************************************************)
\* updateGameState (1517-1530)
HookUpdateGameState(c, newState) ==
  /\ conn[c] = "in"
  /\ WriteStatus(newState.status)
  /\ UNCHANGED <<conn, isHost, hookProgress, progressHistory, progressOp,
                 pieceOp, maxReported>>
  /\ UNCHANGED <<now, onDisconnectOp, hookError, hookLoading, opResult>>
  /\ UNCHANGED gvars

\* The status startGame writes (1603-1606).
StartStatus == "playing"
\* startGame (1599-1612)
StartGame(c) ==
  /\ conn[c] = "in"
  /\ isHost[c]
  /\ WriteStatus(StartStatus)
  /\ UNCHANGED <<conn, isHost, hookProgress, progressHistory, progressOp,
                 pieceOp, maxReported>>
  /\ UNCHANGED <<now, onDisconnectOp, hookError, hookLoading, opResult>>
  /\ UNCHANGED gvars

\* The status pauseGame writes (1615-1617).
PauseStatus == "waiting"
\* pauseGame (1614-1618): no check of gameId or isHost.
PauseGame(c) ==
  /\ conn[c] = "in"
  /\ WriteStatus(PauseStatus)
  /\ UNCHANGED <<conn, isHost, hookProgress, progressHistory, progressOp,
                 pieceOp, maxReported>>
  /\ UNCHANGED <<now, onDisconnectOp, hookError, hookLoading, opResult>>
  /\ UNCHANGED gvars

\* endGame (1620-1634)
EndGame(c, winner) ==
  /\ conn[c] = "in"
  /\ isHost[c]
  /\ db' = [db EXCEPT !.status = "completed", !.endedAt = now,
                       !.winner = winner]
  /\ UNCHANGED <<conn, isHost, hookProgress, progressHistory, progressOp,
                 pieceOp, maxReported>>
  /\ UNCHANGED <<now, onDisconnectOp, hookError, hookLoading, opResult>>
  /\ UNCHANGED gvars

\* updateProgress (1657-1672), up to its await of get: the stored value is
\* read, and the call returns when newProgress is not above it.
UpdateProgressGet(c, newProgress) ==
  /\ conn[c] = "in"
  /\ progressOp[c] = NoValue
  /\ LET currentProgress == IF db.progress = NoValue THEN 0 ELSE db.progress
     IN  IF newProgress <= currentProgress
         THEN /\ maxReported' = Max(maxReported, newProgress)
              /\ UNCHANGED progressOp
         ELSE /\ progressOp' = [progressOp EXCEPT ![c] = newProgress]
              /\ UNCHANGED maxReported
  /\ UNCHANGED <<db, conn, isHost, hookProgress, progressHistory, pieceOp>>
  /\ UNCHANGED <<now, onDisconnectOp, hookError, hookLoading, opResult>>
  /\ UNCHANGED gvars

\* updateProgress after the get: the update of the store (1665-1667).
UpdateProgressWrite(c) ==
  /\ progressOp[c] # NoValue
  /\ WriteProgress(progressOp[c])
  /\ maxReported' = Max(maxReported, progressOp[c])
  /\ progressOp' = [progressOp EXCEPT ![c] = NoValue]
  /\ UNCHANGED <<conn, isHost, hookProgress, pieceOp>>
  /\ UNCHANGED <<now, onDisconnectOp, hookError, hookLoading, opResult>>
  /\ UNCHANGED gvars

\* The piece record after update(.../pieces/{pieceId}, {...position,
\* lastUpdatedBy}) by user c (1536-1540).
WrittenPiece(c, position, sent) ==
  [x |-> position.x, isPlaced |-> position.isPlaced, lastUpdatedBy |-> c,
   lastUpdated |-> sent]

\* updatePiecePosition (1532-1552), its first update, as the store applies
\* it: the call was made at time sent, since c joined, and its lastUpdated
\* is the Date.now() of the call (1539).
UpdatePiecePosition(c, pieceId, position, sent) ==
  /\ conn[c] = "in"
  /\ ~pieceOp[c]
  /\ sent \in onDisconnectOp[c]..now
  /\ db' = [db EXCEPT !.pieces =
              Put(db.pieces, pieceId, WrittenPiece(c, position, sent))]
  /\ pieceOp' = [pieceOp EXCEPT ![c] = position.isPlaced]
  /\ UNCHANGED <<conn, isHost, hookProgress, progressHistory, progressOp,
                 maxReported>>
  /\ UNCHANGED <<now, onDisconnectOp, hookError, hookLoading, opResult>>
  /\ UNCHANGED gvars

\* updatePiecePosition, its second update (1542-1546); gameState is the one
\* of the render that created the callback (deps [gameId, userId]).
UpdatePlacedCount(c) ==
  /\ pieceOp[c]
  /\ db' = [db EXCEPT !.totalPiecesPlaced = InitialGameState.totalPiecesPlaced + 1]
  /\ pieceOp' = [pieceOp EXCEPT ![c] = FALSE]
  /\ UNCHANGED <<conn, isHost, hookProgress, progressHistory, progressOp,
                 maxReported>>
  /\ UNCHANGED <<now, onDisconnectOp, hookError, hookLoading, opResult>>
  /\ UNCHANGED gvars

\* The session's status and the operations on it.
NextSession ==
  \/ \E c \in Clients : Join(c)
  \/ \E c \in Clients : Leave(c)
  \/ \E c \in Clients : Disconnect(c)
  \/ \E c \in Clients, newState \in NewStates : HookUpdateGameState(c, newState)
  \/ \E c \in Clients : StartGame(c)
  \/ \E c \in Clients : PauseGame(c)
  \/ \E c \in Clients, winner \in Clients \cup {NULL} : EndGame(c, winner)

\* The session's progress: the reports and the listeners.
NextProgress ==
  \/ \E c \in Clients : Join(c)
  \/ \E c \in Clients : Leave(c)
  \/ \E c \in Clients : Disconnect(c)
  \/ \E c \in Clients, v \in progressHistory : ProgressListener(c, v)
  \/ \E c \in Clients, v \in ReportValues : UpdateProgressGet(c, v)
  \/ \E c \in Clients : UpdateProgressWrite(c)

\* The session's pieces.
NextPieces ==
  \/ \E c \in Clients : Join(c)
  \/ \E c \in Clients : Leave(c)
  \/ \E c \in Clients : Disconnect(c)
  \/ \E c \in Clients, p \in PieceIds, position \in PositionPayloads, sent \in 0..now :
       UpdatePiecePosition(c, p, position, sent)
  \/ \E c \in Clients : UpdatePlacedCount(c)

\* The pieces of a session whose host publishes its piece set.
SyncPieceIds == {"p1", "p2"}

\* The piecesData the host passes to syncPieceState: a record per piece.
PiecesData == [SyncPieceIds -> PositionPayloads]

\* A number stored where the readers expect an object: it has no properties.
JsNumber(n) == [number |-> n]

\* syncPieceState (1569-1582): the host sets games/{gameId}/pieces to
\* piecesData spread together with a lastUpdated stamp.
SyncPieceState(c, piecesData) ==
  /\ conn[c] = "in"
  /\ isHost[c]
  /\ db' = [db EXCEPT !.pieces = Put(piecesData, "lastUpdated", JsNumber(now))]
  /\ UNCHANGED <<conn, isHost, hookProgress, progressHistory, progressOp,
                 pieceOp, maxReported>>
  /\ UNCHANGED <<now, onDisconnectOp, hookError, hookLoading, opResult>>
  /\ UNCHANGED gvars

\* piece.isPlaced, read on whatever value sits under pieces.
IsPlacedOf(value) == "isPlaced" \in DOMAIN value /\ value.isPlaced

\* checkGameCompletion (1636-1641) on the pieces the listener delivered.
checkGameCompletion(pieces) ==
  LET allPieces == {pieces[k] : k \in DOMAIN pieces}
  IN  /\ DOMAIN pieces # {}
      /\ allPieces # {} /\ \A piece \in allPieces : IsPlacedOf(piece)

\* A session whose pieces are published by the host and moved by everyone.
NextSync ==
  \/ \E c \in Clients : Join(c)
  \/ \E c \in Clients : Leave(c)
  \/ \E c \in Clients, piecesData \in PiecesData : SyncPieceState(c, piecesData)
  \/ \E c \in Clients, p \in SyncPieceIds, position \in PositionPayloads :
       UpdatePiecePosition(c, p, position, now)
  \/ \E c \in Clients : UpdatePlacedCount(c)

(***************************************************************************)
(* useMultiplayerGame: store accesses that fail.                           *)
(***************************************************************************)
\* The store accesses of the hook's write operations: <<operation, call>>.
StoreAccesses ==
  {<<"updateGameState", "update">>, <<"updatePiecePosition", "update">>,
   <<"syncPuzzleState", "set">>, <<"syncPieceState", "set">>,
   <<"setPlayerReady", "update">>, <<"startGame", "update">>,
   <<"pauseGame", "update">>, <<"endGame", "update">>,
   <<"updateTimer", "update">>, <<"updateProgress", "get">>,
   <<"updateProgress", "update">>, <<"updateDifficulty", "update">>}

\* The operations that return at once for a client that is not the host.
HostOnly(op) == op \in {"syncPuzzleState", "syncPieceState", "startGame", "endGame"}

\* The access is awaited inside the operation's try block.
InTry(access) ==
  access \notin {<<"pauseGame", "update">>, <<"updateProgress", "get">>}

\* The argument of setError in the operation's catch block; NULL where the
\* catch block does not call setError.
CatchError(op) ==
  IF op = "updateGameState" THEN "Failed to update game state"
  ELSE IF op = "updatePiecePosition" THEN "Failed to update piece position"
  ELSE IF op = "syncPuzzleState" THEN "Failed to sync puzzle state"
  ELSE IF op = "syncPieceState" THEN "Failed to sync pieces"
  ELSE IF op = "setPlayerReady" THEN "Failed to update ready state"
  ELSE IF op = "startGame" THEN "Failed to start game"
  ELSE IF op = "endGame" THEN "Failed to end game"
  ELSE IF op = "updateTimer" THEN "Failed to update timer"
  ELSE IF op = "updateDifficulty" THEN "Failed to update difficulty"
  ELSE NULL

\* A write operation of client c whose store access rejects: inside a try
\* block the catch block runs (setError where it has one, toast.error);
\* outside one the promise of the operation rejects. Nothing is stored.
StoreAccessFails(c, access) ==
  /\ conn[c] = "in"
  /\ HostOnly(access[1]) => isHost[c]
  /\ access = <<"updateProgress", "get">> => progressOp[c] = NoValue
  /\ access = <<"updateProgress", "update">> => progressOp[c] # NoValue
  /\ progressOp' = [progressOp EXCEPT ![c] = NoValue]
  /\ IF InTry(access)
     THEN /\ opResult' = [opResult EXCEPT ![c] = "toast"]
          /\ hookError' = [hookError EXCEPT ![c] =
                             IF CatchError(access[1]) # NULL
                             THEN CatchError(access[1]) ELSE hookError[c]]
     ELSE /\ opResult' = [opResult EXCEPT ![c] = "rejected"]
          /\ UNCHANGED hookError
  /\ UNCHANGED <<db, conn, isHost, hookProgress, progressHistory, pieceOp,
                 maxReported, now, onDisconnectOp, hookLoading>>
  /\ UNCHANGED gvars

\* The session as its clients' listeners and failing writes see it.
NextErrors ==
  \/ \E c \in Clients : Join(c)
  \/ \E c \in Clients : Leave(c)
  \/ \E c \in Clients : GameListener(c)
  \/ \E c \in Clients, v \in ReportValues : UpdateProgressGet(c, v)
  \/ \E c \in Clients, access \in StoreAccesses : StoreAccessFails(c, access)

\* The session's records while players come and go and time passes.
NextPresence ==
  \/ \E c \in Clients : Join(c)
  \/ \E c \in Clients : Leave(c)
  \/ \E c \in Clients : Disconnect(c)
  \/ Tick
  \/ \E c \in Clients : StartGame(c)
  \/ \E c \in Clients, p \in PieceIds, position \in PositionPayloads, sent \in 0..now :
       UpdatePiecePosition(c, p, position, sent)
  \/ \E c \in Clients : UpdatePlacedCount(c)

(***************************************************************************)
(* Invite links: the calls.                                                *)
(***************************************************************************)
GenerateInviteLink(puzzleId) ==
  /\ invite' = [NoInvite EXCEPT !.op = "generateInviteLink", !.puzzleId = puzzleId, !.inviteLink = generateInviteLink(puzzleId)]
  /\ UNCHANGED <<image, loading, progress, completedPieces, totalPieces,
                 timeElapsed, isTimerRunning, gameState, showShareModal,
                 difficulty, gameId, selectedDifficulty, puzzlePiecesRef,
                 selectedPieceRef, timerAlive, isDragging, pendingLoads,
                 pendingCompletions, authUser, hpcCalls, syncCalls, errorLog,
                 stateUpdates, isPremium, isModalOpen, completedPuzzles, misplacedDrops>>
  /\ UNCHANGED hvars

\* The link that generateInviteLink returned last is passed on as it is.
Generated(inviteLink) ==
  invite.op = "generateInviteLink" /\ inviteLink = invite.inviteLink

ExtractPuzzleId(inviteLink) ==
  /\ invite' = [NoInvite EXCEPT !.op = "extractPuzzleId", !.puzzleId = IF Generated(inviteLink) THEN invite.puzzleId ELSE <<>>, !.inviteLink = inviteLink, !.roundTrip = Generated(inviteLink), !.extracted = extractPuzzleId(inviteLink)]
  /\ UNCHANGED <<image, loading, progress, completedPieces, totalPieces,
                 timeElapsed, isTimerRunning, gameState, showShareModal,
                 difficulty, gameId, selectedDifficulty, puzzlePiecesRef,
                 selectedPieceRef, timerAlive, isDragging, pendingLoads,
                 pendingCompletions, authUser, hpcCalls, syncCalls, errorLog,
                 stateUpdates, isPremium, isModalOpen, completedPuzzles, misplacedDrops>>
  /\ UNCHANGED hvars

IsValidInviteLink(inviteLink) ==
  /\ invite' = [NoInvite EXCEPT !.op = "isValidInviteLink", !.inviteLink = inviteLink, !.valid = isValidInviteLink(inviteLink)]
  /\ UNCHANGED <<image, loading, progress, completedPieces, totalPieces,
                 timeElapsed, isTimerRunning, gameState, showShareModal,
                 difficulty, gameId, selectedDifficulty, puzzlePiecesRef,
                 selectedPieceRef, timerAlive, isDragging, pendingLoads,
                 pendingCompletions, authUser, hpcCalls, syncCalls, errorLog,
                 stateUpdates, isPremium, isModalOpen, completedPuzzles, misplacedDrops>>
  /\ UNCHANGED hvars

\* The page before any call of an invite-link function.
InitInvite == GameInitial /\ authUser = FALSE /\ NoQuota /\ NoHistory /\ HookIdle

NextInvite ==
  \/ \E puzzleId \in PuzzleIds : GenerateInviteLink(puzzleId)
  \/ \E inviteLink \in InviteLinks \cup {invite.inviteLink} : ExtractPuzzleId(inviteLink)
  \/ \E inviteLink \in InviteLinks \cup {invite.inviteLink} : IsValidInviteLink(inviteLink)

\* A link received from outside, then the calls made on it.
InitReceived ==
  /\ GameInitial
  /\ authUser = FALSE
  /\ isPremium = TRUE
  /\ completedPuzzles = Copies(StartOfMonth, MaxDocs)
  /\ NoHistory
  /\ HookIdle
  /\ \E inviteLink \in InviteLinks : invite = [NoInvite EXCEPT !.inviteLink = inviteLink]

NextReceived ==
  \/ ExtractPuzzleId(invite.inviteLink)
  \/ IsValidInviteLink(invite.inviteLink)

(***************************************************************************)
(* Specifications.                                                         *)
(***************************************************************************)
SpecGame == InitGame /\ [][NextGame]_vars

SpecSession == InitHook /\ [][NextSession]_vars

SpecProgress == InitHook /\ [][NextProgress]_vars

SpecPieces == InitHook /\ [][NextPieces]_vars

SpecPlay == InitPlay /\ [][NextPlay]_vars

SpecPresence == InitHook /\ [][NextPresence]_vars

SpecErrors == InitHook /\ [][NextErrors]_vars

SpecQuota == InitQuota /\ [][NextQuota]_vars

SpecInvite == InitInvite /\ [][NextInvite]_vars

SpecSync == InitHook /\ [][NextSync]_vars

SpecReceived == InitReceived /\ [][NextReceived]_vars

(***************************************************************************)
(* Properties of the component (SpecGame).                                 *)
(***************************************************************************)
\* C1 (as stated): on a loaded piece set no piece goes from placed back to
\* unplaced, whatever drag/drop, pause/resume and reset operations run: the
\* number of placed pieces never drops while the set stays loaded.
C1_PlacedNeverReverts ==
  [][\/ PlacedCount(puzzlePiecesRef') >= PlacedCount(puzzlePiecesRef)
     \/ puzzlePiecesRef' = NoPieces]_vars

\* C1 (amended): on a loaded piece set, placed pieces go back to unplaced
\* only in handleResetGame; drag/drop and pause/resume steps never lower the
\* number of placed pieces.
C1_PlacedRevertsOnlyInReset ==
  [][(/\ puzzlePiecesRef' # puzzlePiecesRef
      /\ PlacedCount(puzzlePiecesRef') < PlacedCount(puzzlePiecesRef))
       => HandleResetGame \/ puzzlePiecesRef' = NoPieces]_vars

\* C1 witness: a piece is placed, the game has been paused after that and
\* another piece of the same set is still to be placed.
C1_PlacedAndPaused ==
  /\ PlacedCount(puzzlePiecesRef) > 0
  /\ PlacedCount(puzzlePiecesRef) < BagCardinality(puzzlePiecesRef)
  /\ gameState = "paused"

C8_OneCompletionRecord == hpcCalls <= 1

\* C9: once progress is 100% and the completion flow has run to its end,
\* the game's state is completed locally and a completed state has been
\* written to the store.
C9_CompletedAtHundred ==
  (IsHundred(progress) /\ syncCalls > 0 /\ pendingCompletions = 0)
    => gameState = "completed" /\ "completed" \in stateUpdates

\* C10: when the write of the completion record fails, the failure is
\* logged, the update of the state to completed is issued and the share
\* prompt is shown.
C10_FlowSurvivesFailedWrite ==
  [][AddDocFail
       => errorLog' /\ showShareModal' /\ "completed" \in stateUpdates']_vars

(***************************************************************************)
(* Properties of the hook's clients.                                       *)
(***************************************************************************)
\* C2 (SpecProgress): under interleaved updateProgress calls the stored
\* progress of a session record never decreases, and with no call between
\* its read and its write it is the largest value reported so far.
C2_StoredProgressIsMax ==
  [][db'.progress # NoValue
       => /\ db.progress # NoValue => db'.progress >= db.progress
          /\ (\A c \in Clients : progressOp'[c] = NoValue)
               => db'.progress = maxReported']_vars

\* C3 (SpecProgress): the progress of a mounted hook never decreases,
\* whichever of the values the store has held (null included) its listener
\* is handed next.
C3_ObservedProgressMonotone ==
  [][\A c \in Clients :
       (conn[c] = "in" /\ conn'[c] = "in")
         => hookProgress'[c] >= hookProgress[c]]_vars

\* C3 witness: a mounted hook holds a progress above the stored one, which
\* its listener can still be handed.
C3_StaleSnapshotPending ==
  \E c \in Clients :
    /\ conn[c] = "in"
    /\ hookProgress[c] > 0
    /\ \E v \in progressHistory : v < hookProgress[c]
    /\ db.progress < hookProgress[c]

\* C4 (SpecPieces): while the player who last wrote an unplaced piece is
\* still connected, no other player's write to that piece succeeds.
C4_OneHolderPerPiece ==
  [][\A p \in (DOMAIN db.pieces) \cap (DOMAIN db'.pieces) :
       LET holder == db.pieces[p].lastUpdatedBy
       IN  (~db.pieces[p].isPlaced /\ conn[holder] = "in" /\ conn'[holder] = "in")
             => db'.pieces[p].lastUpdatedBy = holder]_vars

\* C5 (SpecSession): once the stored status is completed, startGame,
\* pauseGame, endGame and updateGameState leave it completed (the record
\* itself may be removed).
C5_CompletedIsTerminal ==
  [][db.status = "completed" => db'.status \in {"completed", NULL}]_vars

\* C6 (SpecSession): every change of the stored status by startGame,
\* pauseGame or endGame is waiting -> playing, playing -> paused,
\* paused -> playing or playing -> completed.
C6_StatusTransitions ==
  [][(/\ db.status # NULL
      /\ db'.status # db.status
      /\ \E c \in Clients :
           \/ StartGame(c)
           \/ PauseGame(c)
           \/ \E winner \in Clients \cup {NULL} : EndGame(c, winner))
       => <<db.status, db'.status>> \in
            {<<"waiting", "playing">>, <<"playing", "paused">>,
             <<"paused", "playing">>, <<"playing", "completed">>}]_vars


C12_ProgressWithinRange ==
  /\ progress.num >= 0
  /\ progress.den > 0
  /\ progress.num <= progress.den

\* C13 as stated: when the active difficulty has rotationEnabled = false, a
\* dropped piece snaps iff its distance to the target is below that
\* difficulty's snapDistance, whatever its rotation. The drops looked at are
\* those at a distance on which the drop's own distance test agrees with
\* the difficulty's snapDistance (0.29 is below both), so that only the
\* rotation can make the difference.
C13_PositionOnlySnap ==
  [][(/\ HandleMouseUp
      /\ selectedPieceRef # NoPiece
      /\ ~DIFFICULTY_SETTINGS(selectedDifficulty).rotationEnabled
      /\ IsNearCorrectPosition(selectedPieceRef.dist)
           <=> selectedPieceRef.dist
                 < DIFFICULTY_SETTINGS(selectedDifficulty).snapDistance)
     => ((PlacedCount(puzzlePiecesRef') = PlacedCount(puzzlePiecesRef) + 1)
          <=> selectedPieceRef.dist
                < DIFFICULTY_SETTINGS(selectedDifficulty).snapDistance)]_vars

\* C14 as stated: a dropped piece snaps iff its distance to the target is
\* below the snapDistance of the active difficulty and the rotation check
\* passes.
C14_DifficultySnapDistance ==
  [][(HandleMouseUp /\ selectedPieceRef # NoPiece)
     => ((PlacedCount(puzzlePiecesRef') = PlacedCount(puzzlePiecesRef) + 1)
          <=> (/\ selectedPieceRef.dist
                    < DIFFICULTY_SETTINGS(selectedDifficulty).snapDistance
               /\ IsNearCorrectRotation(selectedPieceRef.rot)))]_vars

\* C15: for a piece dropped within the snap distance, the drop snaps exactly
\* when the minimal angular distance modulo a full turn between the piece's
\* rotation and its target rotation (0) is below the rotation tolerance, for
\* positive, negative and multi-turn rotations.
C15_RotationCheckIsAngularDistance ==
  [][(/\ HandleMouseUp
      /\ selectedPieceRef # NoPiece
      /\ IsNearCorrectPosition(selectedPieceRef.dist))
     => ((PlacedCount(puzzlePiecesRef') = PlacedCount(puzzlePiecesRef) + 1)
          <=> LET m == selectedPieceRef.rot % TwoPi
              IN  Min(m, TwoPi - m) < RotationTolerance)]_vars

\* C15 witness: one piece was snapped, one was dropped within the snap
\* distance and stayed unplaced for its rotation, and the held piece is
\* within the snap distance at a negative rotation a little short of a full
\* turn.
C15_RotationsDropped ==
  /\ PlacedCount(puzzlePiecesRef) > 0
  /\ selectedPieceRef # NoPiece
  /\ IsNearCorrectPosition(selectedPieceRef.dist)
  /\ selectedPieceRef.rot < -TwoPi + RotationTolerance
  /\ \E p \in BagToSet(puzzlePiecesRef) :
       /\ p # selectedPieceRef
       /\ ~p.isPlaced
       /\ IsNearCorrectPosition(p.dist)
       /\ p.rot > RotationTolerance /\ p.rot < TwoPi - RotationTolerance

\* C16 as stated: the snap decision on a pose depends only on the planar
\* offset from the target and on the rotation, not on the height z: the
\* pose a drag gives the held piece snaps iff the same pose at z = 0 does.
C16_SnapIgnoresHeight ==
  [][\A x \in PlayOffsets, z \in PlayHeights, r \in PlayRotations :
       PlayMove(x, z, r)
         => (Snaps(selectedPieceRef')
               <=> Snaps([selectedPieceRef' EXCEPT !.dist = DistanceTo(x, 0)]))]_vars

\* C17 as stated: the strength computed while dragging (correctPosition)
\* is always within [0, 1].
C17_StrengthWithinUnit ==
  [][\A x \in PlayOffsets, z \in PlayHeights, r \in PlayRotations :
       PlayMove(x, z, r)
         => (/\ CorrectPositionValue(selectedPieceRef') >= 0
             /\ CorrectPositionValue(selectedPieceRef') <= 1000)]_vars

(***************************************************************************)
(* Claims on the session's records (SpecPresence).                         *)
(***************************************************************************)
\* C18: on explicit leave (the effect cleanup) a host's leave removes the
\* entire session; a guest's leave removes that guest's player record only
\* and leaves every other record of the session unchanged.
C18_LeaveRemoves ==
  [][\A c \in Clients :
       Leave(c) =>
         IF isHost[c]
         THEN db' = NoGame
         ELSE /\ c \notin DOMAIN db'.players
              /\ DOMAIN db'.players = DOMAIN db.players \ {c}
              /\ \A o \in DOMAIN db'.players : db'.players[o] = db.players[o]
              /\ [db' EXCEPT !.players = << >>] = [db EXCEPT !.players = << >>]]_vars

\* C18 witness: a guest has left a started session; its record is gone, the
\* host's record and the pieces are still there.
C18_GuestLeft ==
  \E c \in Clients :
    /\ conn[c] = "left"
    /\ ~isHost[c]
    /\ c \notin DOMAIN db.players
    /\ db.status = "playing"
    /\ db.pieces # << >>
    /\ \E o \in DOMAIN db.players : db.players[o].isHost /\ db.players[o].isOnline

C20_DisconnectStampsTime ==
  [][\A c \in Clients :
       (Disconnect(c) /\ conn[c] = "in") =>
         /\ c \in DOMAIN db'.players
         /\ ~db'.players[c].isOnline
         /\ db'.players[c].lastActive = now]_vars

(***************************************************************************)
(* Claims C21..C30.                                                        *)
(***************************************************************************)
\* C21 as stated: in every reachable state of a session (a session with
\* player records), exactly one player record has isHost = true.
C21_ExactlyOneHost ==
  DOMAIN db.players # {} =>
    Cardinality({c \in DOMAIN db.players : db.players[c].isHost}) = 1

\* C22: a mousedown on a placed piece starts no drag and changes no piece
\* state, and the piece held is never a placed one.
C22_PlacedNotPickedUp ==
  [][/\ \A p \in BagToSet(puzzlePiecesRef) :
          (HandleMouseDown(p) /\ p.isPlaced)
            => UNCHANGED <<selectedPieceRef, isDragging, puzzlePiecesRef>>
     /\ ~selectedPieceRef'.isPlaced]_vars

\* C22 witness: with one piece placed, another (unplaced) piece of the set
\* has been picked up and is being dragged.
C22_DragBesidePlaced ==
  /\ PlacedCount(puzzlePiecesRef) > 0
  /\ PlacedCount(puzzlePiecesRef) < BagCardinality(puzzlePiecesRef)
  /\ gameState = "playing"
  /\ isDragging
  /\ selectedPieceRef # NoPiece
  /\ ~selectedPieceRef.isPlaced
  /\ selectedPieceRef.dist = ScatteredPose[1]

\* C23 as stated: once no load is in progress, the live piece set holds
\* exactly gridWidth x gridHeight pieces of the selected difficulty and
\* totalPieces is that count.
C23_PieceSetMatchesDifficulty ==
  (pendingLoads = EmptyBag /\ puzzlePiecesRef # NoPieces) =>
    /\ BagCardinality(puzzlePiecesRef) = GridCount(selectedDifficulty)
    /\ totalPieces = GridCount(selectedDifficulty)

\* C24 as stated, for writes of different clients: a write to a piece never
\* replaces a record of that piece with a later lastUpdated.
C24_LaterTimestampWins ==
  [][\A p \in (DOMAIN db.pieces) \cap (DOMAIN db'.pieces) :
       db'.pieces[p].lastUpdatedBy # db.pieces[p].lastUpdatedBy
         => db'.pieces[p].lastUpdated >= db.pieces[p].lastUpdated]_vars

\* C25 as stated: an endGame invoked on a session that endGame has ended
\* already changes nothing: endedAt and winner stay those of the first
\* invocation.
C25_EndGameOnce ==
  [][\A c \in Clients, winner \in Clients \cup {NULL} :
       (EndGame(c, winner) /\ db.endedAt # NoValue)
         => /\ db'.endedAt = db.endedAt
            /\ db'.winner = db.winner]_vars

\* C26 as stated: a write operation whose store access fails reports the
\* failure through the error state or a notification, and completes without
\* throwing or rejecting.
C26_FailuresReported ==
  [][\A c \in Clients, access \in StoreAccesses :
       StoreAccessFails(c, access)
         => /\ opResult'[c] # "rejected"
            /\ hookError'[c] # NULL \/ opResult'[c] = "toast"]_vars

\* C27 as stated: a client that joined a session id under which the store
\* held nothing ends in the error state 'Game not found' when the value of
\* the session reaches it (the store then holds what its own join wrote).
C27_MissingGameReported ==
  [][\A c \in Clients :
       (/\ GameListener(c)
        /\ DOMAIN db.players \subseteq {c}
        /\ [db EXCEPT !.players = << >>] = NoGame)
         => hookError'[c] = "Game not found"]_vars

\* C28: a user who is not premium and already has 2 completions stamped in
\* the current month (the start of the month included) gets no further
\* completion recorded.
C28_QuotaBlocksThird ==
  [][(~isPremium /\ PuzzleCount(completedPuzzles) >= 2)
       => PuzzleCount(completedPuzzles') <= PuzzleCount(completedPuzzles)]_vars

\* C29: for every puzzle id, extractPuzzleId applied to the link that
\* generateInviteLink made of the id returns the id.
C29_InviteRoundTrip ==
  (invite.op = "extractPuzzleId" /\ invite.roundTrip)
    => invite.extracted = Returned(invite.puzzleId)

\* C30: isValidInviteLink(link) is true exactly when link is a well-formed
\* URL, its path begins with /join/ and a non-empty id can be extracted
\* from it.
C30_ValidIffJoinPathWithId ==
  invite.op = "isValidInviteLink"
    => (invite.valid <=>
          /\ IsUrl(invite.inviteLink)
          /\ StartsWith(Pathname(invite.inviteLink), <<"/", JoinWord, "/">>)
          /\ ~extractPuzzleId(invite.inviteLink).isNull
          /\ extractPuzzleId(invite.inviteLink).value # <<>>)

(***************************************************************************)
(* Claims C31..C40.                                                        *)
(***************************************************************************)
\* C31: extractPuzzleId returns null, and does not throw, for every input
\* that is not a parseable URL or whose last path segment is not validly
\* percent-encoded.
C31_ExtractReturnsNull ==
  invite.op = "extractPuzzleId"
    => LET link == invite.inviteLink
           parts == Split(Pathname(link), "/")
       IN  (~IsUrl(link) \/ DecodeURIComponent(parts[Len(parts)]).threw)
             => invite.extracted = ReturnedNull

\* C31 witness: extractPuzzleId was applied to a URL whose last segment
\* holds a malformed escape.
C31_MalformedEscapeSeen ==
  /\ invite.op = "extractPuzzleId"
  /\ invite.inviteLink = <<Origin, "/", JoinWord, "/", "%">>
  /\ invite.extracted.isNull

\* C32: when progress reaches 100 the achievement set computed by the
\* completion contains perfectionist exactly when no drop of the attempt
\* failed to snap.
C32_PerfectionistIffNoMisplacement ==
  [][(progress' # progress /\ IsHundred(progress') /\ misplacedDrops' # "unrecorded")
       => ("perfectionist" \in checkAchievements' <=> misplacedDrops' = "none")]_vars

\* C33: when progress reaches 100 the achievement set computed by the
\* completion contains persistent exactly when the completed puzzle was
\* built with the grid of the expert difficulty.
C33_PersistentIffExpertGrid ==
  [][(progress' # progress /\ IsHundred(progress'))
       => ("persistent" \in checkAchievements' <=> totalPieces' = GridCount("expert"))]_vars

\* C34: checkGameCompletion is true exactly when the session holds at
\* least one piece record and every piece record has isPlaced = true, also
\* after the host published the piece set with syncPieceState.
C34_CompleteIffAllPlaced ==
  LET records == DOMAIN db.pieces \cap SyncPieceIds
  IN  checkGameCompletion(db.pieces)
        <=> (records # {} /\ \A k \in records : db.pieces[k].isPlaced)

\* C35: a placement that is not yet counted raises the stored
\* totalPiecesPlaced: no increment of updatePiecePosition is lost.
C35_PlacementsCounted ==
  [][\A c \in Clients :
       LET placed == {k \in DOMAIN db.pieces \cap SyncPieceIds : db.pieces[k].isPlaced}
           stored == IF db.totalPiecesPlaced = NoValue THEN 0 ELSE db.totalPiecesPlaced
       IN  (UpdatePlacedCount(c) /\ stored < Cardinality(placed))
             => db'.totalPiecesPlaced = stored + 1]_vars

\* C36: once a client has left (its cleanup removed the session or its
\* player record), the drop of its connection creates no record under the
\* session.
C36_NoRecordAfterLeave ==
  [][\A c \in Clients :
       (conn[c] = "left" /\ Disconnect(c))
         => DOMAIN db'.players \subseteq DOMAIN db.players]_vars

\* C37: startGame, pauseGame and endGame called by a client that is not the
\* host leave the stored status unchanged.
C37_GuestKeepsStatus ==
  [][\A c \in Clients :
       (~isHost[c] /\ (StartGame(c) \/ PauseGame(c)
                        \/ \E winner \in Clients \cup {NULL} : EndGame(c, winner)))
         => db'.status = db.status]_vars

\* C38: while progress stays at 100 (no new attempt was started) the
\* elapsed-time counter does not change, whatever pause and resume do.
C38_TimeStopsAtHundred ==
  [][(IsHundred(progress) /\ IsHundred(progress')) => timeElapsed' = timeElapsed]_vars

\* C39: the timer runs (isTimerRunning, or a live interval) only while the
\* game state is playing.
C39_TimerOnlyWhilePlaying ==
  (isTimerRunning \/ timerAlive) => gameState = "playing"

\* C40: whenever no puzzle load is in progress, completedPieces is the
\* number of pieces of the live piece set that are placed.
C40_CompletedCountsPlaced ==
  (pendingLoads = EmptyBag /\ ~loading)
    => completedPieces = PlacedCount(puzzlePiecesRef)

==============================================================================
